---- MODULE Spec2Model ----
(***************************************************************************)
(* AWSSecretsManagerCache (src/src/awsSecretsManagerCache.ts): a cache of  *)
(* secrets keyed by alias (userId), filled by fetchSecretWithRetry,        *)
(* refreshed by a setInterval timer, observed through EventEmitter         *)
(* notifications.                                                          *)
(*                                                                         *)
(* JavaScript runs one callback at a time, so every action below is one    *)
(* run-to-completion step: a public method's synchronous part, or the      *)
(* continuation that runs when an awaited promise settles, together with   *)
(* the chain of promise reactions that follow it.                          *)
(***************************************************************************)
EXTENDS Integers, Sequences, FiniteSets, TLC

\* ------------------------------------------------------------------ bounds

\* maxRetries is drawn from 0..MaxRetriesCfg at construction
MaxRetriesCfg == 1
\* and from 0..MaxRetriesBackoff where the backoff is looked at
MaxRetriesBackoff == 3
\* fetchSecretWithRetry sequences that can be in flight at once
MaxTasks == 2
\* Date.now() ranges over 0..MaxTime
MaxTime == 1

\* ------------------------------------------------------------- the universe

Aliases == {"a", "b"}
Ids == {"idA", "idB"}

\* ---------------------------------------------------------- secret values

\* A SecretValue: a parsed JSON object (its members in insertion order) or a
\* string.  One record shape for both, so that values compare.
ObjValue(pairs) == [kind |-> "obj", pairs |-> pairs, chars |-> <<>>]
StrValue(chars) == [kind |-> "str", pairs |-> <<>>, chars |-> chars]

\* JSON text is a sequence of tokens; " " is insignificant whitespace.
IsPunct(t) == t \in {"{", "}", ":", ",", " "}

RECURSIVE ParseMembers(_)
\* members ::= key ":" atom ( "," members )? ; <<"SyntaxError">> when malformed
ParseMembers(s) ==
    IF Len(s) < 3 \/ IsPunct(s[1]) \/ s[2] # ":" \/ IsPunct(s[3])
    THEN <<"SyntaxError">>
    ELSE IF Len(s) = 3
    THEN << <<s[1], s[3]>> >>
    ELSE IF s[4] # ","
    THEN <<"SyntaxError">>
    ELSE LET rest == ParseMembers(SubSeq(s, 5, Len(s)))
         IN  IF rest = <<"SyntaxError">> THEN rest
             ELSE << <<s[1], s[3]>> >> \o rest

\* JSON.parse on the texts the Secret Source can hold: flat objects.
\* [ok |-> FALSE] is the thrown SyntaxError.
JSONParse(text) ==
    LET s == SelectSeq(text, LAMBDA t : t # " ")
    IN  IF Len(s) < 2 \/ s[1] # "{" \/ s[Len(s)] # "}"
        THEN [ok |-> FALSE, value |-> StrValue(<<>>)]
        ELSE IF Len(s) = 2
        THEN [ok |-> TRUE, value |-> ObjValue(<<>>)]
        ELSE LET m == ParseMembers(SubSeq(s, 2, Len(s) - 1))
             IN  IF m = <<"SyntaxError">>
                 THEN [ok |-> FALSE, value |-> StrValue(<<>>)]
                 ELSE [ok |-> TRUE, value |-> ObjValue(m)]

RECURSIVE StringifyMembers(_)
StringifyMembers(pairs) ==
    IF pairs = <<>> THEN <<>>
    ELSE <<pairs[1][1], ":", pairs[1][2]>>
         \o (IF Len(pairs) > 1 THEN <<",">> ELSE <<>>)
         \o StringifyMembers(Tail(pairs))

\* JSON.stringify: members in insertion order, no whitespace; a string quoted.
JSONStringify(v) ==
    IF v.kind = "obj"
    THEN <<"{">> \o StringifyMembers(v.pairs) \o <<"}">>
    ELSE <<"\"">> \o v.chars \o <<"\"">>

\* Buffer.from(bytes).toString('utf-8') on ASCII bytes
CharOf(b) == CASE b = 65 -> "A" [] b = 66 -> "B" [] OTHER -> "?"
BufferToString(bytes) == [i \in DOMAIN bytes |-> CharOf(bytes[i])]

\* Structural (deep) equality of two values: same kind, same members whatever
\* their order, same characters.
StructEq(v, w) ==
    /\ v.kind = w.kind
    /\ v.chars = w.chars
    /\ {v.pairs[i] : i \in DOMAIN v.pairs} = {w.pairs[i] : i \in DOMAIN w.pairs}

\* ------------------------------------------------------- the Secret Source

\* What the Secret Source holds for an identifier: a GetSecretValueCommandOutput.
\* An absent field is the empty sequence (falsy).
SecJson1 == [SecretString |-> <<"{", "k", ":", "1", ",", "m", ":", "2", "}">>, SecretBinary |-> <<>>]
\* the same document, laid out with whitespace
SecJson1w == [SecretString |-> <<"{", " ", "k", ":", "1", ",", " ", "m", ":", "2", "}">>, SecretBinary |-> <<>>]
\* the same members in the other order
SecJson1r == [SecretString |-> <<"{", "m", ":", "2", ",", "k", ":", "1", "}">>, SecretBinary |-> <<>>]
\* a text payload that is not JSON
SecBad == [SecretString |-> <<"{", "k", ":">>, SecretBinary |-> <<>>]
SecBin == [SecretString |-> <<>>, SecretBinary |-> <<65, 66>>]
Secrets == {SecJson1, SecJson1w, SecJson1r, SecBad, SecBin}

\* The answer to one client.send: the promise rejects, resolves to undefined,
\* or resolves to an output.
Rejected == [kind |-> "reject", out |-> SecBin]
Undefined == [kind |-> "undefined", out |-> SecBin]
Output(sec) == [kind |-> "output", out |-> sec]
\* no answer yet
NoAnswer == [kind |-> "none", out |-> SecBin]

\* ------------------------------------------------------------------- state

VARIABLES
    maxRetries,         \* config.maxRetries
    disableEvents,      \* config.disableEvents
    secretMappings,     \* config.secretMappings: alias -> identifier
    cache,              \* Map alias -> [value, fetchedAt]
    isRunning,          \* this.isRunning
    refreshIntervalId,  \* this.refreshIntervalId; 0 is undefined
    timers,             \* the interval timers armed in the runtime
    errorListener,      \* whether an 'error' listener is registered
    source,             \* the Secret Source: identifier -> the secrets it may hold
    now,                \* Date.now()
    tasks,              \* the fetchSecretWithRetry sequences in flight
    inbox,              \* the answer on its way back to each sequence's client.send
    calls,              \* the initialize / timer / addSecretMapping calls awaiting them
    crashed,            \* the process died of an unhandled rejection
    emitted,            \* the emit() calls of the last step, in order
    ret,                \* the call that settled in the last step
    fin,                \* the fetchSecretWithRetry sequence that settled in the last step
    track,              \* which history a specification records
    runs                \* history: how often fetchAllSecrets was entered

vars == <<maxRetries, disableEvents, secretMappings, cache, isRunning,
          refreshIntervalId, timers, errorListener, source, now, tasks, inbox,
          calls, crashed, emitted, ret, fin, track, runs>>

config == <<maxRetries, disableEvents, track>>
scheduler == <<isRunning, refreshIntervalId, timers>>

TaskIds == 1..MaxTasks
\* a call awaits at least one sequence, so there are no more calls than sequences
CallIds == 1..MaxTasks

NoValue == StrValue(<<>>)
NoEntry == [present |-> FALSE, value |-> NoValue, fetchedAt |-> 0]
EntryOf(c, userId) ==
    IF userId \in DOMAIN c
    THEN [present |-> TRUE, value |-> c[userId].value, fetchedAt |-> c[userId].fetchedAt]
    ELSE NoEntry

\* hadEntry is history: whether the alias was cached when the sequence started
IdleTask == [pc |-> "idle", userId |-> "a", secretId |-> "idA", attempt |-> 0,
             owner |-> 0, calls |-> 0, delay |-> 0, hadEntry |-> FALSE]

NoRet == [kind |-> "none", outcome |-> "none"]
NoFin == [outcome |-> "none", exhausted |-> FALSE, userId |-> "a", value |-> NoValue,
          calls |-> 0, wrote |-> FALSE, owner |-> "none",
          hadEntry |-> FALSE]

Event(type, userId, value, ts) ==
    [type |-> type, userId |-> userId, value |-> value, timestamp |-> ts]

\* `if (!this.config.disableEvents) this.emit(..)`: what is emitted of evs
Notify(de, evs) == IF de THEN <<>> ELSE evs

\* config.retryDelay (its default)
retryDelay == 1000

RECURSIVE Pow2(_)
Pow2(n) == IF n = 0 THEN 1 ELSE 2 * Pow2(n - 1)

\* ------------------------------------------------------------ public reads

getSecret(userId) == EntryOf(cache, userId)
getAllSecrets == [u \in DOMAIN cache |-> cache[u].value]
getCacheStats == [size |-> Cardinality(DOMAIN cache)]

\* ------------------------------------------------------------------ history

\* runs after the call or callback op: how many times fetchAllSecrets has been
\* entered (3: more than twice)
Runs(op) ==
    IF "runs" \in track /\ op \in {"initialize", "timer"} /\ runs < 3
    THEN runs + 1 ELSE runs

\* ------------------------------------------------------------- construction

\* The constructor: the parsed config, an empty cache, a stopped scheduler, no
\* listeners.  configSchema demands at least one mapping and maxRetries >= 0.
Construct(mappings, sources, tr) ==
    /\ maxRetries \in 0..MaxRetriesCfg
    /\ disableEvents \in BOOLEAN
    /\ secretMappings \in mappings
    /\ cache = <<>>
    /\ isRunning = FALSE
    /\ refreshIntervalId = 0
    /\ timers = {}
    /\ errorListener = FALSE
    /\ source \in sources
    /\ now = 0
    /\ tasks = [t \in TaskIds |-> IdleTask]
    /\ inbox = [t \in TaskIds |-> NoAnswer]
    /\ calls = [c \in CallIds |-> "idle"]
    /\ crashed = FALSE
    /\ emitted = <<>>
    /\ ret = NoRet
    /\ fin = NoFin
    /\ track = tr
    /\ runs = 0

OneMapping == [u \in {"a"} |-> "idA"]
TwoMappings == [u \in Aliases |-> IF u = "a" THEN "idA" ELSE "idB"]

\* a Secret Source that may hold anything at any time
AnySource == [i \in Ids |-> Secrets]
\* the Secret Sources whose values never change
StableSources == [Ids -> {{sec} : sec \in Secrets}]

Init == Construct({OneMapping}, {AnySource}, {})

\* ---------------------------------------------------------------- helpers

FreeTasks == {t \in TaskIds : tasks[t].pc = "idle"}
FreeCalls == {c \in CallIds : calls[c] = "idle"}

RECURSIVE SetToSeq(_)
\* the elements of a set of task ids, ascending
SetToSeq(S) ==
    IF S = {} THEN <<>>
    ELSE LET m == CHOOSE x \in S : \A y \in S : x <= y
         IN  <<m>> \o SetToSeq(S \ {m})

\* the aliases of a mapping, as Object.entries lists them
AliasSeq(m) == SelectSeq(<<"a", "b">>, LAMBDA u : u \in DOMAIN m)

\* fetchSecretWithRetry(userId, secretId) up to its first await: the command is
\* sent to the Secret Source.
NewTask(userId, secretId, owner) ==
    [pc |-> "sent", userId |-> userId, secretId |-> secretId, attempt |-> 1,
     owner |-> owner, calls |-> 1, delay |-> 0,
     hadEntry |-> "entry" \in track /\ userId \in DOMAIN cache]

\* C19's mutant: fetchAllSecrets that starts the first alias's sequence only
FanOutFirstOnly(c) ==
    LET us == AliasSeq(secretMappings)
        slots == SetToSeq(FreeTasks)
    IN  [t \in TaskIds |->
            IF slots[1] = t
            THEN NewTask(us[1], secretMappings[us[1]], c)
            ELSE tasks[t]]

\* fetchAllSecrets up to its await: one sequence per entry of secretMappings,
\* all started before any answer is looked at.
FanOut(c) ==
    LET us == AliasSeq(secretMappings)
        slots == SetToSeq(FreeTasks)
    IN  [t \in TaskIds |->
            IF \E i \in DOMAIN us : slots[i] = t
            THEN LET i == CHOOSE j \in DOMAIN us : slots[j] = t
                 IN  NewTask(us[i], secretMappings[us[i]], c)
            ELSE tasks[t]]

HasRoom(n) == Cardinality(FreeTasks) >= n /\ FreeCalls # {}
NewCall == CHOOSE c \in FreeCalls : \A d \in FreeCalls : c <= d

\* setInterval hands out a handle no armed timer has
NewTimerId == CHOOSE i \in 1..(Cardinality(timers) + 1) : i \notin timers

NoSchedulerChange ==
    [isRunning |-> isRunning, id |-> refreshIntervalId, timers |-> timers, ev |-> <<>>]

\* C8's mutant: startScheduledRefresh without its guard
CanStartAlways == TRUE

\* startScheduledRefresh's guard
CanStart == ~isRunning

\* startScheduledRefresh: the scheduler after it and its notification
StartScheduledRefresh ==
    IF CanStart
    THEN [isRunning |-> TRUE, id |-> NewTimerId, timers |-> timers \cup {NewTimerId},
          ev |-> <<Event("start", "", NoValue, now)>>]
    ELSE NoSchedulerChange

\* stopScheduledRefresh's guard
CanStop == isRunning /\ refreshIntervalId # 0

\* C4's mutant: stopScheduledRefresh without clearInterval
StopScheduledRefreshKeepsTimer ==
    IF CanStop
    THEN [isRunning |-> FALSE, id |-> refreshIntervalId, timers |-> timers,
          ev |-> <<Event("stop", "", NoValue, now)>>]
    ELSE NoSchedulerChange

\* stopScheduledRefresh: the scheduler after it and its notification
StopScheduledRefresh ==
    IF CanStop
    THEN [isRunning |-> FALSE, id |-> refreshIntervalId,
          timers |-> timers \ {refreshIntervalId},
          ev |-> <<Event("stop", "", NoValue, now)>>]
    ELSE NoSchedulerChange

\* C9's mutant: clearCache without its call of stopScheduledRefresh
ClearCacheNoStop ==
    [cache |-> <<>>, secretMappings |-> secretMappings, isRunning |-> isRunning,
     id |-> refreshIntervalId, timers |-> timers,
     ev |-> <<Event("clear", "", NoValue, now)>>]

\* C10's mutant: clearCache that also empties config.secretMappings
ClearCacheWipesMappings ==
    LET s == IF isRunning THEN StopScheduledRefresh ELSE NoSchedulerChange
    IN  [cache |-> <<>>, secretMappings |-> <<>>,
         isRunning |-> s.isRunning, id |-> s.id, timers |-> s.timers,
         ev |-> s.ev \o <<Event("clear", "", NoValue, now)>>]

\* C24's mutant: clearCache that emits 'clear' before it stops the scheduler
ClearCacheClearFirst ==
    LET s == IF isRunning THEN StopScheduledRefresh ELSE NoSchedulerChange
    IN  [cache |-> <<>>, secretMappings |-> secretMappings,
         isRunning |-> s.isRunning, id |-> s.id, timers |-> s.timers,
         ev |-> <<Event("clear", "", NoValue, now)>> \o s.ev]

\* clearCache: the cache, the mappings and the scheduler after it, and its
\* notifications
ClearCache ==
    LET s == IF isRunning THEN StopScheduledRefresh ELSE NoSchedulerChange
    IN  [cache |-> <<>>, secretMappings |-> secretMappings,
         isRunning |-> s.isRunning, id |-> s.id, timers |-> s.timers,
         ev |-> s.ev \o <<Event("clear", "", NoValue, now)>>]

\* ------------------------------------------------------- public operations

\* initialize() up to its await: fetchAllSecrets fans out.  With no mapping
\* left Promise.all([]) resolves and the scheduler starts in the same step.
initialize ==
    /\ ~crashed
    /\ IF DOMAIN secretMappings = {}
       THEN /\ isRunning' = StartScheduledRefresh.isRunning
            /\ refreshIntervalId' = StartScheduledRefresh.id
            /\ timers' = StartScheduledRefresh.timers
            /\ emitted' = Notify(disableEvents, StartScheduledRefresh.ev)
            /\ ret' = [kind |-> "initialize", outcome |-> "resolved"]
            /\ UNCHANGED <<tasks, calls>>
       ELSE /\ HasRoom(Cardinality(DOMAIN secretMappings))
            /\ tasks' = FanOut(NewCall)
            /\ calls' = [calls EXCEPT ![NewCall] = "initialize"]
            /\ emitted' = <<>>
            /\ ret' = NoRet
            /\ UNCHANGED scheduler
    /\ fin' = NoFin
    /\ runs' = Runs("initialize")
    /\ UNCHANGED <<config, inbox, secretMappings, cache, errorListener, source, now, crashed>>

\* C22's mutant: a timer callback that waits until no sequence is in flight
TimerFireSerialized ==
    /\ ~crashed
    /\ timers # {}
    /\ \A t \in TaskIds : tasks[t].pc = "idle"
    /\ IF DOMAIN secretMappings = {}
       THEN /\ ret' = [kind |-> "timer", outcome |-> "resolved"]
            /\ UNCHANGED <<tasks, calls>>
       ELSE /\ HasRoom(Cardinality(DOMAIN secretMappings))
            /\ tasks' = FanOut(NewCall)
            /\ calls' = [calls EXCEPT ![NewCall] = "timer"]
            /\ ret' = NoRet
    /\ emitted' = <<>>
    /\ fin' = NoFin
    /\ runs' = Runs("timer")
    /\ UNCHANGED <<config, inbox, secretMappings, cache, scheduler, errorListener, source,
                   now, crashed>>

\* The setInterval callback: fetchAllSecrets().catch(..) up to its await.
TimerFire ==
    /\ ~crashed
    /\ timers # {}
    /\ IF DOMAIN secretMappings = {}
       THEN /\ ret' = [kind |-> "timer", outcome |-> "resolved"]
            /\ UNCHANGED <<tasks, calls>>
       ELSE /\ HasRoom(Cardinality(DOMAIN secretMappings))
            /\ tasks' = FanOut(NewCall)
            /\ calls' = [calls EXCEPT ![NewCall] = "timer"]
            /\ ret' = NoRet
    /\ emitted' = <<>>
    /\ fin' = NoFin
    /\ runs' = Runs("timer")
    /\ UNCHANGED <<config, inbox, secretMappings, cache, scheduler, errorListener, source,
                   now, crashed>>

\* C12's mutant: addSecretMapping that fetches without recording the mapping
addSecretMappingNoUpsert(userId, secretId) ==
    /\ ~crashed
    /\ HasRoom(1)
    /\ LET t == CHOOSE x \in FreeTasks : \A y \in FreeTasks : x <= y
       IN  tasks' = [tasks EXCEPT ![t] = NewTask(userId, secretId, NewCall)]
    /\ calls' = [calls EXCEPT ![NewCall] = "addSecretMapping"]
    /\ emitted' = <<>>
    /\ ret' = NoRet
    /\ fin' = NoFin
    /\ runs' = Runs("addSecretMapping")
    /\ UNCHANGED <<config, inbox, secretMappings, cache, scheduler, errorListener, source,
                   now, crashed>>

\* C25's mutant: addSecretMapping that also points the sequences in flight for
\* the alias at the new identifier
addSecretMappingRetargeting(userId, secretId) ==
    /\ ~crashed
    /\ HasRoom(1)
    /\ secretMappings' = [u \in DOMAIN secretMappings \cup {userId} |->
                             IF u = userId THEN secretId ELSE secretMappings[u]]
    /\ LET t == CHOOSE x \in FreeTasks : \A y \in FreeTasks : x <= y
       IN  tasks' = [x \in TaskIds |->
                        IF x = t THEN NewTask(userId, secretId, NewCall)
                        ELSE IF tasks[x].pc # "idle" /\ tasks[x].userId = userId
                        THEN [tasks[x] EXCEPT !.secretId = secretId]
                        ELSE tasks[x]]
    /\ calls' = [calls EXCEPT ![NewCall] = "addSecretMapping"]
    /\ emitted' = <<>>
    /\ ret' = NoRet
    /\ fin' = NoFin
    /\ runs' = Runs("addSecretMapping")
    /\ UNCHANGED <<config, inbox, cache, scheduler, errorListener, source, now, crashed>>

\* addSecretMapping(userId, secretId) up to its await
addSecretMapping(userId, secretId) ==
    /\ ~crashed
    /\ HasRoom(1)
    /\ secretMappings' = [u \in DOMAIN secretMappings \cup {userId} |->
                             IF u = userId THEN secretId ELSE secretMappings[u]]
    /\ LET t == CHOOSE x \in FreeTasks : \A y \in FreeTasks : x <= y
       IN  tasks' = [tasks EXCEPT ![t] = NewTask(userId, secretId, NewCall)]
    /\ calls' = [calls EXCEPT ![NewCall] = "addSecretMapping"]
    /\ emitted' = <<>>
    /\ ret' = NoRet
    /\ fin' = NoFin
    /\ runs' = Runs("addSecretMapping")
    /\ UNCHANGED <<config, inbox, cache, scheduler, errorListener, source, now, crashed>>

\* C21's mutant: stopScheduledRefresh that also drops the sequences in flight
stopScheduledRefreshCancelling ==
    /\ ~crashed
    /\ isRunning' = StopScheduledRefresh.isRunning
    /\ refreshIntervalId' = StopScheduledRefresh.id
    /\ timers' = StopScheduledRefresh.timers
    /\ tasks' = [t \in TaskIds |-> IdleTask]
    /\ calls' = [c \in CallIds |-> "idle"]
    /\ emitted' = Notify(disableEvents, StopScheduledRefresh.ev)
    /\ ret' = NoRet
    /\ fin' = NoFin
    /\ runs' = Runs("stopScheduledRefresh")
    /\ UNCHANGED <<config, inbox, secretMappings, cache, errorListener, source, now, crashed>>

stopScheduledRefresh ==
    /\ ~crashed
    /\ isRunning' = StopScheduledRefresh.isRunning
    /\ refreshIntervalId' = StopScheduledRefresh.id
    /\ timers' = StopScheduledRefresh.timers
    /\ emitted' = Notify(disableEvents, StopScheduledRefresh.ev)
    /\ ret' = NoRet
    /\ fin' = NoFin
    /\ runs' = Runs("stopScheduledRefresh")
    /\ UNCHANGED <<config, inbox, secretMappings, cache, errorListener, source, now, tasks,
                   calls, crashed>>

\* C11's mutant: removeSecretMapping that drops every cache entry
removeSecretMappingClearing(userId) ==
    /\ ~crashed
    /\ secretMappings' = [u \in DOMAIN secretMappings \ {userId} |-> secretMappings[u]]
    /\ cache' = <<>>
    /\ emitted' = Notify(disableEvents, <<Event("remove", userId, NoValue, now)>>)
    /\ ret' = NoRet
    /\ fin' = NoFin
    /\ runs' = Runs("removeSecretMapping")
    /\ UNCHANGED <<config, inbox, scheduler, errorListener, source, now, tasks, calls, crashed>>

removeSecretMapping(userId) ==
    /\ ~crashed
    /\ secretMappings' = [u \in DOMAIN secretMappings \ {userId} |-> secretMappings[u]]
    /\ cache' = [u \in DOMAIN cache \ {userId} |-> cache[u]]
    /\ emitted' = Notify(disableEvents, <<Event("remove", userId, NoValue, now)>>)
    /\ ret' = NoRet
    /\ fin' = NoFin
    /\ runs' = Runs("removeSecretMapping")
    /\ UNCHANGED <<config, inbox, scheduler, errorListener, source, now, tasks, calls, crashed>>

clearCache ==
    /\ ~crashed
    /\ cache' = ClearCache.cache
    /\ secretMappings' = ClearCache.secretMappings
    /\ isRunning' = ClearCache.isRunning
    /\ refreshIntervalId' = ClearCache.id
    /\ timers' = ClearCache.timers
    /\ emitted' = Notify(disableEvents, ClearCache.ev)
    /\ ret' = NoRet
    /\ fin' = NoFin
    /\ runs' = Runs("clearCache")
    /\ UNCHANGED <<config, inbox, errorListener, source, now, tasks, calls, crashed>>

\* cache.on('error', listener): EventEmitter's method
onError ==
    /\ ~crashed
    /\ ~errorListener
    /\ errorListener' = TRUE
    /\ emitted' = <<>>
    /\ ret' = NoRet
    /\ fin' = NoFin
    /\ runs' = Runs("on")
    /\ UNCHANGED <<config, inbox, secretMappings, cache, scheduler, source, now, tasks, calls,
                   crashed>>

\* the clock advances
Tick ==
    /\ ~crashed
    /\ now < MaxTime
    /\ now' = now + 1
    /\ emitted' = <<>>
    /\ ret' = NoRet
    /\ fin' = NoFin
    /\ runs' = Runs("tick")
    /\ UNCHANGED <<config, inbox, secretMappings, cache, scheduler, errorListener, source,
                   tasks, calls, crashed>>

\* ------------------------------------------------- fetchSecretWithRetry

\* what client.send can answer for an identifier
Answers(id) == {Rejected, Undefined} \cup {Output(sec) : sec \in source[id]}

\* secretValue of a response; ok is FALSE when JSON.parse throws
Decode(out) ==
    IF out.SecretString # <<>>
    THEN JSONParse(out.SecretString)
    ELSE IF out.SecretBinary # <<>>
    THEN [ok |-> TRUE, value |-> StrValue(BufferToString(out.SecretBinary))]
    ELSE [ok |-> TRUE, value |-> StrValue(<<>>)]

\* C23's mutant: any response counts as a success, decodable or not
SucceedsOnAnyOutput(resp) == resp.kind = "output"

\* the try block runs to its end: the promise resolved to a response that decodes
Succeeds(resp) == resp.kind = "output" /\ Decode(resp.out).ok

\* C16's mutant: only a missing entry counts as a change
ValueChangedIfAbsent(userId, secretValue) == userId \notin DOMAIN cache

\* C3's mutant: every successful fetch counts as a change
ValueChangedAlways(userId, secretValue) == TRUE

\* C6's mutant: the change test by structural equality
ValueChangedStructurally(userId, secretValue) ==
    \/ userId \notin DOMAIN cache
    \/ ~StructEq(cache[userId].value, secretValue)

\* the change test
ValueChanged(userId, secretValue) ==
    \/ userId \notin DOMAIN cache
    \/ JSONStringify(cache[userId].value) # JSONStringify(secretValue)

\* C15's mutant: a failed attempt blanks the entry
CacheAfterBlanking(userId, resp) ==
    [u \in DOMAIN cache \cup {userId} |->
        IF u = userId
        THEN [value |-> IF Succeeds(resp) THEN Decode(resp.out).value ELSE NoValue,
              fetchedAt |-> now]
        ELSE cache[u]]

\* C5's mutant: a failed attempt deletes the entry
CacheAfterDropping(userId, resp) ==
    IF Succeeds(resp) /\ ValueChanged(userId, Decode(resp.out).value)
    THEN [u \in DOMAIN cache \cup {userId} |->
            IF u = userId
            THEN [value |-> Decode(resp.out).value, fetchedAt |-> now]
            ELSE cache[u]]
    ELSE [u \in DOMAIN cache \ {userId} |-> cache[u]]

\* the cache after the attempt that was answered resp
CacheAfter(userId, resp) ==
    IF Succeeds(resp) /\ ValueChanged(userId, Decode(resp.out).value)
    THEN [u \in DOMAIN cache \cup {userId} |->
            IF u = userId
            THEN [value |-> Decode(resp.out).value, fetchedAt |-> now]
            ELSE cache[u]]
    ELSE cache

\* C1's mutant: the catch block's test, off by one
ShouldRetryStrict(attempt) == attempt < maxRetries

\* the catch block's test
ShouldRetry(attempt) == attempt <= maxRetries

\* C17's mutant: a delay that grows by retryDelay per retry
BackoffDelayLinear(attempt) == retryDelay * attempt

\* the catch block's delay
BackoffDelay(attempt) == retryDelay * Pow2(attempt - 1)

\* EventEmitter.emit('error', ..) throws when no 'error' listener is registered
EmitErrorThrows == ~errorListener

\* the kind of call that awaits sequence t
OwnerKind(t) == IF tasks[t].owner = 0 THEN "orphan" ELSE calls[tasks[t].owner]

\* C20's mutant: initialize starts the scheduler as soon as one of its
\* sequences resolves
SettleStartsEarly(t, rejected, de) ==
    LET c == tasks[t].owner
        kind == OwnerKind(t)
        rest == [tasks EXCEPT ![t] = IdleTask]
        siblings == {x \in TaskIds \ {t} : tasks[x].pc # "idle" /\ tasks[x].owner = c}
        s == IF kind = "initialize" /\ ~rejected THEN StartScheduledRefresh
             ELSE NoSchedulerChange
    IN  IF c = 0 \/ (~rejected /\ siblings # {})
        THEN [tasks |-> rest, calls |-> calls, isRunning |-> s.isRunning,
              id |-> s.id, timers |-> s.timers, ev |-> s.ev,
              ret |-> NoRet, unhandled |-> FALSE]
        ELSE IF rejected
        THEN [tasks |-> [x \in TaskIds |->
                            IF x \in siblings THEN [rest[x] EXCEPT !.owner = 0]
                            ELSE rest[x]],
              calls |-> [calls EXCEPT ![c] = "idle"], isRunning |-> isRunning,
              id |-> refreshIntervalId, timers |-> timers,
              ev |-> IF kind = "timer" THEN <<Event("error", "", NoValue, now)>>
                     ELSE <<>>,
              ret |-> [kind |-> kind, outcome |-> "rejected"],
              unhandled |-> kind = "timer" /\ ~de /\ EmitErrorThrows]
        ELSE [tasks |-> rest, calls |-> [calls EXCEPT ![c] = "idle"],
              isRunning |-> s.isRunning, id |-> s.id, timers |-> s.timers,
              ev |-> s.ev, ret |-> [kind |-> kind, outcome |-> "resolved"],
              unhandled |-> FALSE]

\* Sequence t's promise settles, and the reactions to it run: Promise.all
\* rejects on the first rejection (its other sequences go on, unawaited) and
\* resolves with the last resolution; initialize then starts the scheduler; the
\* timer callback's catch handler emits 'error', and if that throws the
\* rejection is unhandled.
Settle(t, rejected, de) ==
    LET c == tasks[t].owner
        kind == OwnerKind(t)
        rest == [tasks EXCEPT ![t] = IdleTask]
        siblings == {x \in TaskIds \ {t} : tasks[x].pc # "idle" /\ tasks[x].owner = c}
        s == IF kind = "initialize" THEN StartScheduledRefresh ELSE NoSchedulerChange
    IN  IF c = 0 \/ (~rejected /\ siblings # {})
        THEN [tasks |-> rest, calls |-> calls, isRunning |-> isRunning,
              id |-> refreshIntervalId, timers |-> timers, ev |-> <<>>,
              ret |-> NoRet, unhandled |-> FALSE]
        ELSE IF rejected
        THEN [tasks |-> [x \in TaskIds |->
                            IF x \in siblings THEN [rest[x] EXCEPT !.owner = 0]
                            ELSE rest[x]],
              calls |-> [calls EXCEPT ![c] = "idle"], isRunning |-> isRunning,
              id |-> refreshIntervalId, timers |-> timers,
              ev |-> IF kind = "timer" THEN <<Event("error", "", NoValue, now)>>
                     ELSE <<>>,
              ret |-> [kind |-> kind, outcome |-> "rejected"],
              unhandled |-> kind = "timer" /\ ~de /\ EmitErrorThrows]
        ELSE [tasks |-> rest, calls |-> [calls EXCEPT ![c] = "idle"],
              isRunning |-> s.isRunning, id |-> s.id, timers |-> s.timers,
              ev |-> s.ev, ret |-> [kind |-> kind, outcome |-> "resolved"],
              unhandled |-> FALSE]

\* The continuation of sequence t when client.send is answered resp, with
\* disableEvents = de: everything it changes and emits.
RespondOutcome(t, resp, de) ==
    LET k == tasks[t]
        ok == Succeeds(resp)
        v == IF ok THEN Decode(resp.out).value ELSE NoValue
        retry == ~ok /\ ShouldRetry(k.attempt)
        wrote == ok /\ ValueChanged(k.userId, v)
        throws == ~ok /\ ~retry /\ ~de /\ EmitErrorThrows
        st == Settle(t, throws, de)
        own == IF wrote THEN <<Event("update", k.userId, v, now)>>
               ELSE IF ~ok THEN <<Event("error", k.userId, NoValue, now)>>
               ELSE <<>>
    IN  IF retry
        THEN [cache |-> CacheAfter(k.userId, resp),
              tasks |-> [tasks EXCEPT ![t].pc = "sleep",
                                      ![t].delay = BackoffDelay(k.attempt)],
              calls |-> calls, isRunning |-> isRunning, id |-> refreshIntervalId,
              timers |-> timers, ev |-> <<>>, ret |-> NoRet, fin |-> NoFin,
              unhandled |-> FALSE]
        ELSE [cache |-> CacheAfter(k.userId, resp),
              tasks |-> st.tasks, calls |-> st.calls, isRunning |-> st.isRunning,
              id |-> st.id, timers |-> st.timers, ev |-> Notify(de, own \o st.ev),
              ret |-> st.ret,
              fin |-> [outcome |-> IF throws THEN "rejected" ELSE "resolved",
                       exhausted |-> ~ok, userId |-> k.userId, value |-> v,
                       calls |-> k.calls, wrote |-> wrote, owner |-> OwnerKind(t),
                       hadEntry |-> k.hadEntry],
              unhandled |-> st.unhandled]

\* client.send of sequence t is answered resp and the sequence goes on to its
\* next await or to its end.  An unhandled rejection may or may not end the
\* process, as the host decides.
Respond(t, resp) ==
    /\ ~crashed
    /\ tasks[t].pc = "sent"
    /\ \E o \in {RespondOutcome(t, resp, disableEvents)} :
           /\ cache' = o.cache
           /\ tasks' = o.tasks
           /\ calls' = o.calls
           /\ isRunning' = o.isRunning
           /\ refreshIntervalId' = o.id
           /\ timers' = o.timers
           /\ emitted' = o.ev
           /\ ret' = o.ret
           /\ fin' = o.fin
           /\ crashed' \in (IF o.unhandled THEN BOOLEAN ELSE {FALSE})
    /\ inbox' = [inbox EXCEPT ![t] = NoAnswer]
    /\ runs' = Runs("respond")
    /\ UNCHANGED <<config, secretMappings, errorListener, source, now>>

\* C18's mutant: the next attempt sends its command while the last is in flight
WakeEarly(t) ==
    /\ ~crashed
    /\ tasks[t].pc = "sent"
    /\ ShouldRetry(tasks[t].attempt)
    /\ tasks' = [tasks EXCEPT ![t].pc = "sent", ![t].attempt = @ + 1,
                              ![t].calls = @ + 1, ![t].delay = 0]
    /\ emitted' = <<>>
    /\ ret' = NoRet
    /\ fin' = NoFin
    /\ runs' = Runs("wake")
    /\ UNCHANGED <<config, inbox, secretMappings, cache, scheduler, errorListener, source,
                   now, calls, crashed>>

\* C29's mutant: the retry does not count its attempt
WakeSameAttempt(t) ==
    /\ ~crashed
    /\ tasks[t].pc = "sleep"
    /\ tasks' = [tasks EXCEPT ![t].pc = "sent", ![t].delay = 0]
    /\ emitted' = <<>>
    /\ ret' = NoRet
    /\ fin' = NoFin
    /\ runs' = Runs("wake")
    /\ UNCHANGED <<config, inbox, secretMappings, cache, scheduler, errorListener, source,
                   now, calls, crashed>>

\* The backoff timer of sequence t expires: the next attempt sends its command.
Wake(t) ==
    /\ ~crashed
    /\ tasks[t].pc = "sleep"
    /\ tasks' = [tasks EXCEPT ![t].pc = "sent", ![t].attempt = @ + 1,
                              ![t].calls = @ + 1, ![t].delay = 0]
    /\ emitted' = <<>>
    /\ ret' = NoRet
    /\ fin' = NoFin
    /\ runs' = Runs("wake")
    /\ UNCHANGED <<config, inbox, secretMappings, cache, scheduler, errorListener, source,
                   now, calls, crashed>>

\* The Secret Source reads the secret for the command of sequence t and sends
\* its answer, which is on its way from then on.
SourceRead(t) ==
    /\ ~crashed
    /\ tasks[t].pc = "sent"
    /\ inbox[t] = NoAnswer
    /\ \E resp \in Answers(tasks[t].secretId) : inbox' = [inbox EXCEPT ![t] = resp]
    /\ emitted' = <<>>
    /\ ret' = NoRet
    /\ fin' = NoFin
    /\ runs' = Runs("read")
    /\ UNCHANGED <<config, secretMappings, cache, scheduler, errorListener, source,
                   now, tasks, calls, crashed>>

\* The answer on its way to sequence t arrives: its client.send settles.
Deliver(t) == inbox[t] # NoAnswer /\ Respond(t, inbox[t])

\* The secret of idA is rotated in the Secret Source, once.
Rotate ==
    /\ ~crashed
    /\ source["idA"] = {SecJson1}
    /\ source' = [source EXCEPT !["idA"] = {SecBin}]
    /\ emitted' = <<>>
    /\ ret' = NoRet
    /\ fin' = NoFin
    /\ runs' = Runs("rotate")
    /\ UNCHANGED <<config, inbox, secretMappings, cache, scheduler, errorListener,
                   now, tasks, calls, crashed>>

\* ----------------------------------------------------------- specifications

\* the (alias, identifier) pairs addSecretMapping is called with
AddInputs == {<<"a", "idA">>}
\* the aliases removeSecretMapping is called with
RemoveInputs == {"a"}

Next ==
    \/ initialize
    \/ TimerFire
    \/ \E m \in AddInputs : addSecretMapping(m[1], m[2])
    \/ stopScheduledRefresh
    \/ \E u \in RemoveInputs : removeSecretMapping(u)
    \/ clearCache
    \/ onError
    \/ Tick
    \/ \E t \in TaskIds : \E resp \in Answers(tasks[t].secretId) : Respond(t, resp)
    \/ \E t \in TaskIds : Wake(t)

Spec == Init /\ [][Next]_vars

\* The same program, recording whether an alias was cached as its sequence
\* started.
InitEntry == Construct({OneMapping}, {AnySource}, {"entry"})
SpecEntry == InitEntry /\ [][Next]_vars

\* Refresh runs one after the other over a Secret Source whose values never
\* change: a run starts when no sequence is in flight, and there are two.
InitStable == Construct({OneMapping, TwoMappings}, StableSources, {"runs", "entry"})

Idle == \A t \in TaskIds : tasks[t].pc = "idle"

NextStable ==
    \/ Idle /\ runs < 2 /\ initialize
    \/ Idle /\ runs < 2 /\ TimerFire
    \/ onError
    \/ Tick
    \/ \E t \in TaskIds : \E resp \in Answers(tasks[t].secretId) : Respond(t, resp)
    \/ \E t \in TaskIds : Wake(t)

SpecStable == InitStable /\ [][NextStable]_vars

\* Two aliases with every public operation, over a Secret Source that holds a
\* JSON text or a text that is not JSON, with the clock standing still.
SmallSource == [i \in Ids |-> {SecJson1, SecBad}]
InitWide == Construct({TwoMappings}, {SmallSource}, {})

\* the (alias, identifier) pairs addSecretMapping is called with
AddInputsWide == {<<"b", "idB">>}

NextWide ==
    \/ initialize
    \/ TimerFire
    \/ \E m \in AddInputsWide : addSecretMapping(m[1], m[2])
    \/ stopScheduledRefresh
    \/ \E u \in Aliases : removeSecretMapping(u)
    \/ clearCache
    \/ onError
    \/ \E t \in TaskIds : \E resp \in Answers(tasks[t].secretId) : Respond(t, resp)
    \/ \E t \in TaskIds : Wake(t)

SpecWide == InitWide /\ [][NextWide]_vars

\* One alias with more retries, to see the backoff grow: initialize and the
\* scheduled refresh over a Secret Source that can always fail.
InitBackoff ==
    /\ maxRetries \in 0..MaxRetriesBackoff
    /\ disableEvents \in BOOLEAN
    /\ secretMappings = OneMapping
    /\ cache = <<>>
    /\ isRunning = FALSE
    /\ refreshIntervalId = 0
    /\ timers = {}
    /\ errorListener = FALSE
    /\ source = SmallSource
    /\ now = 0
    /\ tasks = [t \in TaskIds |-> IdleTask]
    /\ inbox = [t \in TaskIds |-> NoAnswer]
    /\ calls = [c \in CallIds |-> "idle"]
    /\ crashed = FALSE
    /\ emitted = <<>>
    /\ ret = NoRet
    /\ fin = NoFin
    /\ track = {}
    /\ runs = 0

NextBackoff ==
    \/ initialize
    \/ TimerFire
    \/ onError
    \/ \E t \in TaskIds : \E resp \in Answers(tasks[t].secretId) : Respond(t, resp)
    \/ \E t \in TaskIds : Wake(t)

SpecBackoff == InitBackoff /\ [][NextBackoff]_vars

\* The same, over a Secret Source that always answers: every failure is a
\* payload that does not decode.
NextDecode ==
    \/ initialize
    \/ TimerFire
    \/ onError
    \/ \E t \in TaskIds : \E sec \in source[tasks[t].secretId] : Respond(t, Output(sec))
    \/ \E t \in TaskIds : Wake(t)

SpecDecode == InitBackoff /\ [][NextDecode]_vars

\* The registry changing under fetches in flight: alias "a" is re-mapped or
\* removed and alias "b" added while sequences run, over a Secret Source whose
\* two identifiers hold different values.
DistinctSource == [i \in Ids |-> IF i = "idA" THEN {SecJson1} ELSE {SecBin}]
InitRemap == Construct({OneMapping}, {DistinctSource}, {})

\* the (alias, identifier) pairs addSecretMapping is called with
AddInputsRemap == {<<"a", "idB">>, <<"b", "idB">>}

NextRemap ==
    \/ initialize
    \/ TimerFire
    \/ \E m \in AddInputsRemap : addSecretMapping(m[1], m[2])
    \/ removeSecretMapping("a")
    \/ onError
    \/ \E t \in TaskIds : \E resp \in Answers(tasks[t].secretId) : Respond(t, resp)
    \/ \E t \in TaskIds : Wake(t)

SpecRemap == InitRemap /\ [][NextRemap]_vars

\* Answers that take their time: the Secret Source reads the secret when the
\* command reaches it and the answer arrives later, while the secret of idA is
\* rotated and other fetches for the alias start.
FirstSource == [i \in Ids |-> {SecJson1}]
InitLate == Construct({OneMapping}, {FirstSource}, {})

NextLate ==
    \/ initialize
    \/ TimerFire
    \/ \E m \in AddInputs : addSecretMapping(m[1], m[2])
    \/ onError
    \/ Rotate
    \/ \E t \in TaskIds : SourceRead(t)
    \/ \E t \in TaskIds : Deliver(t)
    \/ \E t \in TaskIds : Wake(t)

SpecLate == InitLate /\ [][NextLate]_vars

\* The operations that fetch, under a Secret Source that answers every command
\* and a runtime whose backoff timers fire.
Fairness ==
    \A t \in TaskIds :
        /\ WF_vars(\E resp \in Answers(tasks[t].secretId) : Respond(t, resp))
        /\ WF_vars(Wake(t))

NextLive ==
    \/ initialize
    \/ TimerFire
    \/ \E m \in AddInputs : addSecretMapping(m[1], m[2])
    \/ onError
    \/ \E t \in TaskIds : \E resp \in Answers(tasks[t].secretId) : Respond(t, resp)
    \/ \E t \in TaskIds : Wake(t)

SpecLive == InitLate /\ [][NextLive]_vars /\ Fairness

\* ------------------------------------------------------------------ claims

\* the events of one type among evs, in order
EventsOf(evs, type) == SelectSeq(evs, LAMBDA e : e.type = type)

\* the alias-carrying events of one type for alias userId among evs
EventsFor(evs, type, userId) ==
    SelectSeq(evs, LAMBDA e : e.type = type /\ e.userId = userId)

\* a sequence settled in the last step
Settled == fin.outcome # "none"
\* a sequence settled in the last step after a successful attempt
Fetched == fin.outcome # "none" /\ ~fin.exhausted

\* C1, as amended: a sequence makes one call per attempt and never more than
\* maxRetries + 1; one whose every attempt fails settles after exactly
\* maxRetries + 1 calls and then emits exactly one 'error' for its alias when
\* events are enabled, none when they are disabled; a step that settles no
\* sequence emits no 'error' for an alias.
RetryBound ==
    /\ \A t \in TaskIds :
         tasks[t].pc # "idle" =>
            /\ tasks[t].calls = tasks[t].attempt
            /\ tasks[t].calls <= maxRetries + 1
    /\ fin.exhausted =>
         /\ fin.calls = maxRetries + 1
         /\ Len(EventsFor(emitted, "error", fin.userId))
              = (IF disableEvents THEN 0 ELSE 1)
    /\ ~fin.exhausted =>
         \A u \in Aliases : EventsFor(emitted, "error", u) = <<>>

\* C1, as stated: exhaustion comes after exactly maxRetries + 1 calls and
\* emits exactly one 'error' for the alias.
RetryBoundAsStated ==
    fin.exhausted =>
        /\ fin.calls = maxRetries + 1
        /\ Len(EventsFor(emitted, "error", fin.userId)) = 1

\* C1's case: with maxRetries = 1 a sequence failed twice and emitted its one
\* 'error'.
RetryBoundWitness ==
    /\ fin.exhausted
    /\ maxRetries = 1
    /\ fin.calls = 2
    /\ Len(EventsFor(emitted, "error", fin.userId)) = 1

\* C2, as stated: initialize() and fetchAllSecrets() never reject, whatever
\* listeners are registered.
NeverRejects ==
    ret.kind \in {"initialize", "timer"} => ret.outcome = "resolved"

\* C3, as amended: over a Secret Source whose values do not change, a
\* successful fetch of the first run writes its alias and emits one 'update'
\* for it when events are enabled (none when disabled); in the second run a
\* sequence for an alias the cache already held writes nothing and emits no
\* 'update', and a successful fetch of an alias the first run failed to fetch
\* writes it and emits as in a first run.
IdempotentRefresh ==
    LET updates == Len(EventsFor(emitted, "update", fin.userId))
    IN  /\ runs = 1 /\ Fetched =>
             fin.wrote /\ updates = (IF disableEvents THEN 0 ELSE 1)
        /\ runs = 2 /\ Settled /\ fin.hadEntry =>
             ~fin.wrote /\ updates = 0
        /\ runs = 2 /\ Fetched /\ ~fin.hadEntry =>
             fin.wrote /\ updates = (IF disableEvents THEN 0 ELSE 1)

\* C3, as stated: the first run emits exactly one 'update' per successfully
\* fetched alias, the second writes nothing and emits no 'update'.
IdempotentRefreshAsStated ==
    LET updates == Len(EventsFor(emitted, "update", fin.userId))
    IN  /\ runs = 1 /\ Fetched => updates = 1
        /\ runs = 2 /\ Settled => ~fin.wrote /\ updates = 0

\* C3's case: with events enabled, the second run fetched an alias the first
\* had cached and wrote nothing.
IdempotentRefreshWitness ==
    /\ runs = 2
    /\ Fetched
    /\ fin.hadEntry
    /\ ~fin.wrote
    /\ ~disableEvents
    /\ emitted = <<>>

\* a step in which a command is sent to the Secret Source
SendsCommand == \E t \in TaskIds : tasks'[t].calls > tasks[t].calls
\* a step in which a fetchSecretWithRetry sequence starts
StartsSequence == \E t \in TaskIds : tasks[t].pc = "idle" /\ tasks'[t].pc # "idle"
\* a step that is a call of initialize or of addSecretMapping
CallsInitializeOrAdd ==
    initialize \/ \E m \in AddInputs : addSecretMapping(m[1], m[2])
\* stopScheduledRefresh stopped the scheduler in the last step
JustStopped == emitted = <<Event("stop", "", NoValue, now)>>
InitializePending == \E c \in CallIds : calls[c] = "initialize"

\* C4, as amended: stopScheduledRefresh leaves the scheduler stopped with no
\* timer armed; and while no timer is armed and no initialize() is pending, a
\* step that is not a call of initialize or addSecretMapping arms no timer and
\* starts no sequence, so the only commands still sent are the retries of
\* sequences that were already in flight.
StopHalts ==
    [][/\ stopScheduledRefresh => ~isRunning' /\ timers' = {}
       /\ (timers = {} /\ ~InitializePending /\ ~CallsInitializeOrAdd) =>
            /\ timers' = {}
            /\ ~isRunning'
            /\ ~InitializePending'
            /\ ~StartsSequence
            /\ SendsCommand =>
                 \E t \in TaskIds : tasks[t].pc = "sleep" /\ tasks'[t].pc = "sent"]_vars

\* C4, as stated: once stopScheduledRefresh has returned, a step that is not a
\* call of initialize or addSecretMapping sends no command, whatever was in
\* progress.
StopHaltsAsStated ==
    [][(JustStopped /\ ~CallsInitializeOrAdd) => ~SendsCommand]_vars

\* C4's case: stopScheduledRefresh has just stopped the scheduler while a
\* sequence is in its backoff.
StopHaltsWitness ==
    /\ JustStopped
    /\ timers = {}
    /\ ~InitializePending
    /\ \E t \in TaskIds : tasks[t].pc = "sleep"

\* a step that is a failed attempt of sequence t: the attempt fails and the
\* sequence backs off or gives up
FailedAttempt ==
    \/ fin'.exhausted
    \/ \E t \in TaskIds : tasks[t].pc = "sent" /\ tasks'[t].pc = "sleep"

\* C5, as amended: no failed attempt, no backoff and no exhaustion of the
\* retries writes, deletes or blanks anything: each leaves every cache entry,
\* value and fetchedAt, exactly as it found it.  (The entry of the alias can
\* still change while its sequence is failing, through clearCache,
\* removeSecretMapping or another sequence's successful fetch.)
StaleKept ==
    [][(FailedAttempt \/ \E t \in TaskIds : Wake(t)) =>
          /\ cache' = cache
          /\ \A u \in Aliases : getSecret(u)' = getSecret(u)]_vars

\* C5, as stated (its consequence for getSecret): when a sequence has ended
\* with every attempt failed, the alias is cached exactly if it was when the
\* sequence started.
StaleKeptAsStated ==
    fin.exhausted => (fin.hadEntry <=> getSecret(fin.userId).present)

\* C5's case: a sequence for a cached alias ended with every attempt failed
\* and the entry fetched earlier is still served.
StaleKeptWitness ==
    /\ fin.exhausted
    /\ fin.hadEntry
    /\ getSecret(fin.userId).present
    /\ getSecret(fin.userId).fetchedAt < now

\* the entry a successful fetch writes
Written(c, userId, value, at) ==
    [u \in DOMAIN c \cup {userId} |->
        IF u = userId THEN [value |-> value, fetchedAt |-> at] ELSE c[u]]

\* C6, as amended: a successful fetch writes the entry exactly when the alias
\* has no entry or the JSON serialization of the fetched value differs from
\* that of the cached one (members in another order count as a difference);
\* the entry written holds the fetched value and the current time; with events
\* enabled the write is paired with exactly one 'update' carrying the alias,
\* that value and that fetchedAt, with events disabled nothing is emitted; and
\* without a write the cache is unchanged and no 'update' is emitted.
ChangeDetection ==
    [][Fetched' =>
         LET u == fin'.userId
             v == fin'.value
             differs == \/ u \notin DOMAIN cache
                        \/ JSONStringify(cache[u].value) # JSONStringify(v)
         IN  /\ fin'.wrote <=> differs
             /\ differs =>
                  /\ cache' = Written(cache, u, v, now)
                  /\ EventsOf(emitted', "update")
                       = (IF disableEvents THEN <<>>
                          ELSE <<Event("update", u, v, cache'[u].fetchedAt)>>)
             /\ ~differs =>
                  /\ cache' = cache
                  /\ EventsOf(emitted', "update") = <<>>]_vars

\* C6, as stated: a successful fetch writes the entry and emits 'update'
\* exactly when the alias has no entry or the fetched value differs
\* structurally from the cached one; otherwise the entry is unchanged and
\* nothing is emitted.
ChangeDetectionAsStated ==
    [][Fetched' =>
         LET u == fin'.userId
             v == fin'.value
             differs == \/ u \notin DOMAIN cache
                        \/ ~StructEq(cache[u].value, v)
         IN  /\ differs =>
                  /\ cache' = Written(cache, u, v, now)
                  /\ EventsOf(emitted', "update")
                       = <<Event("update", u, v, cache'[u].fetchedAt)>>
             /\ ~differs =>
                  /\ cache' = cache
                  /\ EventsOf(emitted', "update") = <<>>]_vars

\* C6's case: a fetch brought the members in the other order, and the entry
\* was written and 'update' emitted with its value and fetchedAt.
ChangeDetectionWitness ==
    /\ Fetched
    /\ fin.wrote
    /\ fin.value = JSONParse(SecJson1r.SecretString).value
    /\ cache[fin.userId].value = fin.value
    /\ EventsOf(emitted, "update")
         = <<Event("update", fin.userId, fin.value, cache[fin.userId].fetchedAt)>>

\* what a continuation does to the cache, the sequences, the calls, the
\* scheduler and the process
Core(o) ==
    [cache |-> o.cache, tasks |-> o.tasks, calls |-> o.calls,
     isRunning |-> o.isRunning, id |-> o.id, timers |-> o.timers,
     unhandled |-> o.unhandled]

\* C7, as stated: with disableEvents nothing is ever emitted, and the state
\* evolves as with events enabled: whatever the Secret Source answers to a
\* sequence, its continuation has the same effect with disableEvents true as
\* with disableEvents false.
EventsOffSameState ==
    /\ disableEvents => emitted = <<>>
    /\ \A t \in TaskIds :
         tasks[t].pc = "sent" =>
            \A resp \in Answers(tasks[t].secretId) :
               Core(RespondOutcome(t, resp, TRUE)) = Core(RespondOutcome(t, resp, FALSE))

\* no 'start' and no 'stop' among evs
NoStartStop(evs) == EventsOf(evs, "start") = <<>> /\ EventsOf(evs, "stop") = <<>>

\* C8: at most one timer is armed; isRunning holds exactly when one is, and it
\* is the one refreshIntervalId names; 'start' is emitted only by a step that
\* takes the scheduler from stopped to running and 'stop' only by one that
\* takes it from running to stopped; and a step that leaves isRunning as it
\* was (a start while running, a stop while stopped) arms and clears no timer
\* and emits neither.
SchedulerIdempotent ==
    [][/\ Cardinality(timers') <= 1
       /\ isRunning' <=> timers' # {}
       /\ isRunning' => timers' = {refreshIntervalId'}
       /\ EventsOf(emitted', "start") # <<>> => ~isRunning /\ isRunning'
       /\ EventsOf(emitted', "stop") # <<>> => isRunning /\ ~isRunning'
       /\ isRunning' = isRunning => timers' = timers /\ NoStartStop(emitted')
       /\ Len(EventsOf(emitted', "start")) <= 1
       /\ Len(EventsOf(emitted', "stop")) <= 1]_vars

\* C8's case: with events enabled an initialize() resolved while the scheduler
\* was already running, and there is one timer and no 'start'.
SchedulerIdempotentWitness ==
    /\ ret = [kind |-> "initialize", outcome |-> "resolved"]
    /\ ~disableEvents
    /\ EventsOf(emitted, "start") = <<>>
    /\ isRunning
    /\ Cardinality(timers) = 1

\* C9: clearCache leaves the cache empty (getSecret undefined for every
\* alias, getAllSecrets empty, getCacheStats of size 0) and the scheduler
\* stopped with no timer armed.
ClearEmptiesAndStops ==
    [][clearCache =>
          /\ \A u \in Aliases : ~getSecret(u)'.present
          /\ getAllSecrets' = <<>>
          /\ getCacheStats'.size = 0
          /\ ~isRunning'
          /\ timers' = {}]_vars

\* C9's case: after an initialize() that filled the cache and started the
\* scheduler, clearCache has stopped it and emptied the cache.
ClearEmptiesAndStopsWitness ==
    /\ Len(emitted) = 2
    /\ emitted[1].type = "stop"
    /\ emitted[2].type = "clear"
    /\ getCacheStats.size = 0
    /\ ~isRunning

\* C10: clearCache leaves config.secretMappings as it was, so fetchAllSecrets
\* goes over the same aliases afterwards.
ClearKeepsMappings ==
    [][clearCache =>
          /\ secretMappings' = secretMappings
          /\ AliasSeq(secretMappings') = AliasSeq(secretMappings)]_vars

\* C10's case: clearCache has run on a cache with a mapping, and the mapping
\* is still there.
ClearKeepsMappingsWitness ==
    /\ EventsOf(emitted, "clear") # <<>>
    /\ cache = <<>>
    /\ DOMAIN secretMappings = {"a"}

\* the mapping of alias u in m, "" when it has none
MappingOf(m, u) == IF u \in DOMAIN m THEN m[u] ELSE ""

\* what removeSecretMapping(u) leaves alone: the other aliases' mappings and
\* entries, and the scheduler
RemoveLeavesOthers(u) ==
    /\ \A w \in Aliases \ {u} :
         /\ MappingOf(secretMappings', w) = MappingOf(secretMappings, w)
         /\ EntryOf(cache', w) = EntryOf(cache, w)
    /\ isRunning' = isRunning
    /\ timers' = timers
    /\ refreshIntervalId' = refreshIntervalId

\* C11, as amended: removeSecretMapping(u) removes u from secretMappings and
\* from the cache, so that getSecret(u) is absent right after it; it leaves
\* every other alias's mapping and entry and the scheduler as they were; and
\* it emits exactly one 'remove' for u when events are enabled, nothing when
\* they are disabled.
RemoveFrame ==
    [][\A u \in Aliases :
         removeSecretMapping(u) =>
            /\ u \notin DOMAIN secretMappings'
            /\ u \notin DOMAIN cache'
            /\ ~getSecret(u)'.present
            /\ RemoveLeavesOthers(u)
            /\ emitted' = (IF disableEvents THEN <<>>
                           ELSE <<Event("remove", u, NoValue, now)>>)]_vars

\* C11, as stated: removeSecretMapping(u) removes u from secretMappings and
\* the cache, leaves the rest alone and emits one 'remove' for u.
RemoveFrameAsStated ==
    [][\A u \in Aliases :
         removeSecretMapping(u) =>
            /\ u \notin DOMAIN secretMappings'
            /\ u \notin DOMAIN cache'
            /\ RemoveLeavesOthers(u)
            /\ emitted' = <<Event("remove", u, NoValue, now)>>]_vars

\* C11's case: "a" has just been removed while "b" is mapped and cached and
\* the scheduler runs.
RemoveFrameWitness ==
    /\ emitted = <<Event("remove", "a", NoValue, now)>>
    /\ ~getSecret("a").present
    /\ "a" \notin DOMAIN secretMappings
    /\ MappingOf(secretMappings, "b") = "idB"
    /\ getSecret("b").present
    /\ isRunning

\* the sequences that start in a step
Started == {t \in TaskIds : tasks[t].pc = "idle" /\ tasks'[t].pc # "idle"}

\* the values the Secret Source can return for an identifier, decoded
Returnable(id) == {Decode(sec).value : sec \in {x \in source[id] : Decode(x).ok}}

\* C12, as amended: addSecretMapping(u, id) upserts u -> id, leaves the other
\* mappings and the cache alone and starts exactly one sequence, for u and id,
\* whose first command is sent at once; the call returns in the step in which
\* that sequence ends.  If the sequence fetched a value, the call resolves and
\* getSecret(u) then yields that value, one the Secret Source returns for id,
\* after a single call when the first attempt succeeded.  If every attempt
\* failed, the call returns with the cache as the failing attempt found it,
\* rejecting exactly when events are enabled and no 'error' listener is
\* registered.
AddFetchesOne ==
    [][/\ \A m \in AddInputsWide :
            addSecretMapping(m[1], m[2]) =>
               /\ MappingOf(secretMappings', m[1]) = m[2]
               /\ \A w \in Aliases \ {m[1]} :
                    MappingOf(secretMappings', w) = MappingOf(secretMappings, w)
               /\ cache' = cache
               /\ Cardinality(Started) = 1
               /\ \A t \in Started :
                    /\ tasks'[t].userId = m[1]
                    /\ tasks'[t].secretId = m[2]
                    /\ tasks'[t].pc = "sent"
                    /\ tasks'[t].calls = 1
       /\ ret'.kind = "addSecretMapping" <=> fin'.owner = "addSecretMapping"
       /\ ret'.kind = "addSecretMapping" =>
            /\ Fetched' =>
                 /\ ret'.outcome = "resolved"
                 /\ EntryOf(cache', fin'.userId).present
                 /\ EntryOf(cache', fin'.userId).value = fin'.value
                 /\ \E t \in TaskIds :
                      /\ tasks[t].pc = "sent" /\ tasks'[t].pc = "idle"
                      /\ tasks[t].userId = fin'.userId
                      /\ fin'.value \in Returnable(tasks[t].secretId)
                      /\ fin'.calls = tasks[t].attempt
            /\ fin'.exhausted =>
                 /\ cache' = cache
                 /\ ret'.outcome = "rejected" <=> (~disableEvents /\ ~errorListener)]_vars

\* C12, as stated (its postcondition): when addSecretMapping returns, its
\* sequence has fetched a value and getSecret(alias) yields it.
AddFetchesOneAsStated ==
    ret.kind = "addSecretMapping" =>
        /\ Fetched
        /\ getSecret(fin.userId).present
        /\ getSecret(fin.userId).value = fin.value

\* C12's case: addSecretMapping("b", "idB") has returned after one call that
\* succeeded, and getSecret("b") yields the value fetched.
AddFetchesOneWitness ==
    /\ ret = [kind |-> "addSecretMapping", outcome |-> "resolved"]
    /\ Fetched
    /\ fin.userId = "b"
    /\ fin.calls = 1
    /\ getSecret("b").present
    /\ getSecret("b").value = JSONParse(SecJson1.SecretString).value

\* C13, as stated (its first half): fetchAllSecrets returns only after the
\* sequence of every alias of its cycle has finished, so no sequence is ever
\* in flight without the call that started it still awaiting it.
NoShortCircuit ==
    \A t \in TaskIds : tasks[t].pc # "idle" => tasks[t].owner # 0

\* C14, as stated: a failure in a scheduled refresh cycle never leaves the
\* timer callback: the cycle's fetchAllSecrets does not reject, and no
\* rejection is left unhandled to end the process.
ScheduledFailureContained ==
    /\ ~crashed
    /\ ret.kind = "timer" => ret.outcome = "resolved"

\* C15: the cache starts empty, and an entry appears or changes only in the
\* step in which a sequence for that alias ends a successful attempt: the entry
\* then holds the value that attempt decoded, one the Secret Source returns
\* for the sequence's identifier, and the current time.  What the reads show
\* is exactly the entries: getAllSecrets and the size count cover the aliases
\* getSecret yields, and no other.
CacheOnlyFetched ==
    /\ cache = <<>>
    /\ [][/\ \A u \in Aliases :
               (EntryOf(cache', u).present /\ EntryOf(cache', u) # EntryOf(cache, u)) =>
                  /\ Fetched'
                  /\ fin'.userId = u
                  /\ cache'[u] = [value |-> fin'.value, fetchedAt |-> now]
                  /\ \E t \in TaskIds :
                       /\ tasks[t].pc = "sent" /\ tasks'[t].pc = "idle"
                       /\ tasks[t].userId = u
                       /\ fin'.value \in Returnable(tasks[t].secretId)
          /\ DOMAIN getAllSecrets' = {u \in Aliases : getSecret(u)'.present}
          /\ \A u \in DOMAIN getAllSecrets' : getAllSecrets'[u] = getSecret(u)'.value
          /\ getCacheStats'.size = Cardinality({u \in Aliases : getSecret(u)'.present})]_vars

\* C15's case: a sequence has just fetched a binary secret for "a" and
\* getSecret("a") yields its text.
CacheOnlyFetchedWitness ==
    /\ Fetched
    /\ fin.wrote
    /\ fin.userId = "a"
    /\ getSecret("a").present
    /\ getSecret("a").value = StrValue(<<"A", "B">>)
    /\ getCacheStats.size = 1

\* C16, as amended: when a sequence of a scheduled refresh cycle ends a
\* successful attempt, getSecret of its alias yields the value just fetched;
\* and if that value's serialization differs from the cached one's (or there
\* was no entry) exactly one 'update' carrying the alias, the new value and the
\* entry's fetchedAt is emitted when events are enabled, none when they are
\* disabled.
RefreshPropagates ==
    [][(Fetched' /\ fin'.owner = "timer") =>
         LET u == fin'.userId
             v == fin'.value
             changed == \/ u \notin DOMAIN cache
                        \/ JSONStringify(cache[u].value) # JSONStringify(v)
         IN  /\ EntryOf(cache', u).present
             /\ EntryOf(cache', u).value = v
             /\ changed =>
                  /\ EntryOf(cache', u).fetchedAt = now
                  /\ EventsOf(emitted', "update")
                       = (IF disableEvents THEN <<>>
                          ELSE <<Event("update", u, v, now)>>)]_vars

\* C16, as stated: a changed value fetched by a scheduled refresh cycle is
\* what getSecret yields afterwards, together with one 'update' carrying it.
RefreshPropagatesAsStated ==
    [][(Fetched' /\ fin'.owner = "timer") =>
         LET u == fin'.userId
             v == fin'.value
             changed == \/ u \notin DOMAIN cache
                        \/ JSONStringify(cache[u].value) # JSONStringify(v)
         IN  /\ EntryOf(cache', u).present
             /\ EntryOf(cache', u).value = v
             /\ changed =>
                  EventsOf(emitted', "update") = <<Event("update", u, v, now)>>]_vars

\* C16's case: with the scheduler running and events enabled, a scheduled
\* cycle fetched a value for an alias that was cached when the cycle began,
\* wrote it and emitted its 'update'.
RefreshPropagatesWitness ==
    /\ Fetched
    /\ fin.owner = "timer"
    /\ fin.hadEntry
    /\ fin.wrote
    /\ isRunning
    /\ getSecret(fin.userId).value = fin.value
    /\ emitted = <<Event("update", fin.userId, fin.value, getSecret(fin.userId).fetchedAt)>>

\* C17: a sequence suspended after failed attempt a has a <= maxRetries and
\* its delay is retryDelay * 2^(a-1), that is retryDelay * 2^(k-2) before
\* attempt k = a + 1: retryDelay after the first failure and twice the
\* previous delay after each further one, with nothing added and no ceiling;
\* and a sequence gives up only at a failed attempt number above maxRetries.
BackoffGrowth ==
    /\ \A t \in TaskIds :
         tasks[t].pc = "sleep" =>
            LET a == tasks[t].attempt
                k == tasks[t].attempt + 1
            IN  /\ a >= 1 /\ a <= maxRetries
                /\ tasks[t].delay = retryDelay * 2^(a - 1)
                /\ tasks[t].delay = retryDelay * 2^(k - 2)
                /\ a = 1 => tasks[t].delay = retryDelay
                /\ a > 1 => tasks[t].delay = 2 * (retryDelay * 2^(a - 2))
    /\ fin.exhausted => fin.calls > maxRetries

\* C17's case: a sequence is suspended after its third failed attempt, for
\* four times retryDelay.
BackoffGrowthWitness ==
    \E t \in TaskIds :
        /\ tasks[t].pc = "sleep"
        /\ tasks[t].attempt = 3
        /\ tasks[t].delay = 4 * retryDelay

\* C18: a sequence sends a further command only on waking from its backoff,
\* which it entered when the attempt before failed; the command is the next
\* attempt's, one more than before; a sequence whose command is in flight sends
\* no other; and a sequence ends in the step in which an attempt succeeds.
AttemptsOrdered ==
    [][\A t \in TaskIds :
         /\ (tasks[t].pc # "idle" /\ tasks'[t].calls > tasks[t].calls) =>
               /\ tasks[t].pc = "sleep"
               /\ tasks'[t].pc = "sent"
               /\ tasks'[t].calls = tasks[t].calls + 1
               /\ tasks'[t].attempt = tasks[t].attempt + 1
         /\ (tasks[t].pc = "sent" /\ tasks'[t].pc = "sent") =>
               /\ tasks'[t].calls = tasks[t].calls
               /\ tasks'[t].attempt = tasks[t].attempt
         /\ (tasks[t].pc # "sleep" /\ tasks'[t].pc = "sleep") =>
               /\ tasks[t].pc = "sent"
               /\ tasks'[t].calls = tasks[t].calls
               /\ ~Fetched'
         /\ (tasks[t].pc = "sent" /\ Fetched' /\ tasks'[t].pc # "sent") =>
               tasks'[t].pc = "idle"]_vars

\* C18's case: a sequence's third attempt is in flight after two failed ones.
AttemptsOrderedWitness ==
    \E t \in TaskIds :
        /\ tasks[t].pc = "sent"
        /\ tasks[t].attempt = 3
        /\ tasks[t].calls = 3

\* C19: a step in which fetchAllSecrets starts sends the first command of
\* every mapped alias before any answer is looked at: one new sequence per
\* alias, each with its one command in flight; and a sequence that ends a
\* successful attempt while another stays suspended in its backoff leaves its
\* own alias cached with the value fetched.
BackoffDoesNotBlock ==
    [][/\ ((initialize \/ TimerFire) /\ DOMAIN secretMappings # {}) =>
            /\ Cardinality(Started) = Cardinality(DOMAIN secretMappings)
            /\ \A u \in DOMAIN secretMappings :
                 \E t \in Started :
                    /\ tasks'[t].userId = u
                    /\ tasks'[t].secretId = secretMappings[u]
                    /\ tasks'[t].pc = "sent"
                    /\ tasks'[t].calls = 1
       /\ \A t \in TaskIds : \A x \in TaskIds \ {t} :
            (tasks[t].pc = "sleep" /\ tasks'[t] = tasks[t] /\ tasks[x].pc = "sent"
               /\ tasks'[x].pc = "idle" /\ Fetched') =>
               /\ EntryOf(cache', fin'.userId).value = fin'.value
               /\ fin'.userId = tasks[x].userId]_vars

\* C19's case: while the sequence of "a" is suspended in its backoff, the
\* sequence of "b" of the same cycle has fetched, written the cache and
\* emitted its 'update'.
BackoffDoesNotBlockWitness ==
    /\ \E t \in TaskIds :
         tasks[t].pc = "sleep" /\ tasks[t].userId = "a" /\ tasks[t].owner # 0
    /\ Fetched
    /\ fin.userId = "b"
    /\ fin.wrote
    /\ getSecret("b").value = fin.value
    /\ emitted = <<Event("update", "b", fin.value, getSecret("b").fetchedAt)>>

\* a step in which the scheduler starts: a timer is armed, isRunning becomes
\* true or 'start' is emitted
SchedulerStarts ==
    \/ timers' \ timers # {}
    \/ ~isRunning /\ isRunning'
    \/ EventsOf(emitted', "start") # <<>>

\* C20: the scheduler starts only in the step in which an initialize() call
\* resolves, and by then every sequence its fetchAllSecrets started has
\* ended (with no alias mapped there is none, and it starts at once); 'start'
\* is the last notification of that step, after the 'update' or 'error' of the
\* cycle's last sequence; and a scheduled cycle begins only while a timer is
\* armed, hence not before an initialize() has completed.
StartAfterInitialFetch ==
    [][/\ SchedulerStarts =>
            /\ ret' = [kind |-> "initialize", outcome |-> "resolved"]
            /\ \/ initialize /\ DOMAIN secretMappings = {}
               \/ \E c \in CallIds :
                    /\ calls[c] = "initialize"
                    /\ calls'[c] = "idle"
                    /\ \A t \in TaskIds :
                         (tasks[t].pc # "idle" /\ tasks[t].owner = c) =>
                            tasks'[t].pc = "idle"
            /\ ~disableEvents =>
                 /\ Len(EventsOf(emitted', "start")) = 1
                 /\ emitted'[Len(emitted')].type = "start"
       /\ (\E c \in CallIds : calls[c] # "timer" /\ calls'[c] = "timer") =>
            timers # {}]_vars

\* C20's case: initialize() over two aliases has resolved: the last sequence's
\* 'update' came first, then 'start', and both aliases are cached.
StartAfterInitialFetchWitness ==
    /\ ret = [kind |-> "initialize", outcome |-> "resolved"]
    /\ Len(emitted) = 2
    /\ emitted[1].type = "update"
    /\ emitted[2].type = "start"
    /\ getSecret("a").present
    /\ getSecret("b").present
    /\ isRunning
    /\ Idle

\* a step in which a scheduled refresh cycle starts
TimerCycleStarts == \E c \in CallIds : calls[c] # "timer" /\ calls'[c] = "timer"

\* C21: stopScheduledRefresh and clearCache leave every sequence in flight and
\* every pending call as they were, and leave no timer armed; a scheduled
\* cycle starts only while a timer is armed; and whether or not the scheduler
\* runs, a sequence in its backoff can wake and a sequence whose command is in
\* flight can take its answer.
StopKeepsInFlight ==
    [][/\ (stopScheduledRefresh \/ clearCache) =>
            /\ tasks' = tasks
            /\ calls' = calls
            /\ timers' = {}
            /\ ~isRunning'
       /\ TimerCycleStarts => timers # {} /\ isRunning
       /\ \A t \in TaskIds :
            /\ (tasks[t].pc = "sleep" /\ ~crashed) => ENABLED Wake(t)
            /\ (tasks[t].pc = "sent" /\ ~crashed) => ENABLED Respond(t, Rejected)]_vars

\* C21's case: with the scheduler stopped and no timer armed, a sequence of a
\* scheduled cycle has ended a successful attempt, written the cache and
\* emitted 'update'.
StopKeepsInFlightWitness ==
    /\ ~isRunning
    /\ timers = {}
    /\ Fetched
    /\ fin.owner = "timer"
    /\ fin.wrote
    /\ getSecret(fin.userId).value = fin.value
    /\ emitted = <<Event("update", fin.userId, fin.value, getSecret(fin.userId).fetchedAt)>>

\* C22: the timer callback starts its cycle whenever the timer is armed,
\* whatever is still in flight from earlier cycles (within the number of
\* sequences the model has room for).
CyclesOverlap ==
    (/\ ~crashed
     /\ timers # {}
     /\ DOMAIN secretMappings # {} => HasRoom(Cardinality(DOMAIN secretMappings)))
        => ENABLED TimerFire

\* C22's case: two sequences for "a", started by two scheduled cycles, are in
\* flight at once, the older one in its backoff.
CyclesOverlapWitness ==
    \E t \in TaskIds : \E x \in TaskIds \ {t} :
        /\ tasks[t].pc = "sleep"
        /\ tasks[x].pc = "sent"
        /\ tasks[t].userId = "a"
        /\ tasks[x].userId = "a"
        /\ tasks[t].owner # 0
        /\ tasks[x].owner # 0
        /\ tasks[t].owner # tasks[x].owner
        /\ calls[tasks[t].owner] = "timer"
        /\ calls[tasks[x].owner] = "timer"

\* C23, as amended: a response whose text does not parse has in every state
\* the very effect of a rejected call, and leaves the cache alone; over a
\* Secret Source whose only failures are such responses, a suspended sequence
\* has failed attempt a <= maxRetries and waits retryDelay * 2^(a-1), a
\* sequence gives up after exactly maxRetries + 1 calls, emitting one 'error'
\* for its alias when events are enabled and none when they are disabled, and
\* the cache never holds an empty value.
DecodeFailureRetried ==
    /\ \A t \in TaskIds :
         tasks[t].pc = "sent" =>
            /\ RespondOutcome(t, Output(SecBad), disableEvents)
                 = RespondOutcome(t, Rejected, disableEvents)
            /\ RespondOutcome(t, Output(SecBad), disableEvents).cache = cache
    /\ \A t \in TaskIds :
         tasks[t].pc = "sleep" =>
            /\ tasks[t].attempt <= maxRetries
            /\ tasks[t].delay = retryDelay * 2^(tasks[t].attempt - 1)
    /\ fin.exhausted =>
         /\ fin.calls = maxRetries + 1
         /\ Len(EventsFor(emitted, "error", fin.userId))
              = (IF disableEvents THEN 0 ELSE 1)
    /\ \A u \in DOMAIN cache :
         /\ cache[u].value # NoValue
         /\ cache[u].value \in Returnable(secretMappings[u])

\* C23, as stated (its notification): a sequence whose attempts all ended in
\* a payload that does not parse emits one 'error' for its alias.
DecodeFailureRetriedAsStated ==
    fin.exhausted => Len(EventsFor(emitted, "error", fin.userId)) = 1

\* C23's case: with maxRetries = 2 and events enabled, three payloads in a row
\* did not parse; the sequence gave up with one 'error' and the value cached
\* before is still there.
DecodeFailureRetriedWitness ==
    /\ fin.exhausted
    /\ maxRetries = 2
    /\ fin.calls = 3
    /\ Len(EventsFor(emitted, "error", fin.userId)) = 1
    /\ getSecret(fin.userId).present
    /\ getSecret(fin.userId).value = JSONParse(SecJson1.SecretString).value

\* C24: the scheduler begins stopped and, with events enabled, a step emits
\* one 'start' exactly when it takes the scheduler from stopped to running and
\* one 'stop' exactly when it takes it from running to stopped; a clearCache
\* that stops the scheduler emits 'stop' and then 'clear', and nothing else.
\* Hence 'start' and 'stop' alternate from 'start' on, and isRunning is true
\* exactly when the last of them was 'start'.
LifecycleAlternates ==
    /\ ~isRunning
    /\ [][~disableEvents =>
            /\ Len(EventsOf(emitted', "start"))
                 = (IF ~isRunning /\ isRunning' THEN 1 ELSE 0)
            /\ Len(EventsOf(emitted', "stop"))
                 = (IF isRunning /\ ~isRunning' THEN 1 ELSE 0)
            /\ (clearCache /\ isRunning) =>
                 /\ Len(emitted') = 2
                 /\ emitted'[1].type = "stop"
                 /\ emitted'[2].type = "clear"
            /\ (clearCache /\ ~isRunning) =>
                 /\ Len(emitted') = 1
                 /\ emitted'[1].type = "clear"]_vars

\* C24's case: clearCache found the scheduler running and stopped it; 'stop'
\* came before 'clear'.
LifecycleAlternatesWitness ==
    /\ ~disableEvents
    /\ ~isRunning
    /\ timers = {}
    /\ Len(emitted) = 2
    /\ emitted[1].type = "stop"
    /\ emitted[2].type = "clear"

\* the sequences in flight that belong to a refresh cycle
CycleOwned(t) ==
    tasks[t].pc # "idle" /\ tasks[t].owner # 0
        /\ calls[tasks[t].owner] \in {"initialize", "timer"}

\* C25: a step in which fetchAllSecrets is called starts one sequence per alias
\* of secretMappings as it is in that step, each for the identifier the alias
\* has then, all owned by that call; a sequence in flight keeps its alias and
\* its identifier through every later step, whatever is added, re-mapped or
\* removed; addSecretMapping starts one sequence of its own, owned by its own
\* call, and neither it nor removeSecretMapping touches a sequence in flight.
CycleFetchesSnapshot ==
    [][/\ ((initialize \/ TimerFire) /\ DOMAIN secretMappings # {}) =>
            /\ Cardinality(Started) = Cardinality(DOMAIN secretMappings)
            /\ {<<tasks'[t].userId, tasks'[t].secretId>> : t \in Started}
                 = {<<u, secretMappings[u]>> : u \in DOMAIN secretMappings}
            /\ \A t \in Started :
                 /\ tasks'[t].owner # 0
                 /\ calls[tasks'[t].owner] = "idle"
                 /\ calls'[tasks'[t].owner] \in {"initialize", "timer"}
       /\ \A t \in TaskIds :
            (tasks[t].pc # "idle" /\ tasks'[t].pc # "idle") =>
               /\ tasks'[t].userId = tasks[t].userId
               /\ tasks'[t].secretId = tasks[t].secretId
               /\ tasks'[t].owner \in {tasks[t].owner, 0}
       /\ \A m \in AddInputsRemap :
            addSecretMapping(m[1], m[2]) =>
               /\ \A t \in TaskIds \ Started : tasks'[t] = tasks[t]
               /\ \A t \in Started :
                    /\ calls[tasks'[t].owner] = "idle"
                    /\ calls'[tasks'[t].owner] = "addSecretMapping"
       /\ removeSecretMapping("a") => tasks' = tasks /\ calls' = calls]_vars

\* C25's case: alias "a" was re-mapped to idB while a sequence of a refresh
\* cycle for "a" and idA was in flight; that sequence has now fetched the value
\* of idA and written it.
CycleFetchesSnapshotWitness ==
    /\ Fetched
    /\ fin.owner \in {"initialize", "timer"}
    /\ fin.userId = "a"
    /\ fin.wrote
    /\ fin.value \in Returnable("idA")
    /\ MappingOf(secretMappings, "a") = "idB"

\* C26, as stated: the cache holds only aliases that secretMappings holds, so
\* an alias removed and not added again stays absent from the cache.
CacheWithinRegistry == DOMAIN cache \subseteq DOMAIN secretMappings

\* C28, as stated: once no fetch is in flight, the value cached for an alias
\* is one the Secret Source returns for the identifier the alias is mapped to.
CachedFromCurrentId ==
    Idle => \A u \in DOMAIN cache \cap DOMAIN secretMappings :
               cache[u].value \in Returnable(secretMappings[u])

\* C27, as stated: once the cache holds for "a" the value the Secret Source
\* has held since the rotation, which only a read made after the rotation can
\* have brought, no step puts an older value in its place.
NeverRegresses ==
    [][(/\ source["idA"] = {SecBin}
        /\ getSecret("a").present
        /\ getSecret("a").value = Decode(SecBin).value)
          => EntryOf(cache', "a").value = Decode(SecBin).value]_vars

\* C29: no sequence sends more than maxRetries + 1 commands, and as long as
\* the process lives every sequence in flight ends and every pending
\* initialize, scheduled cycle and addSecretMapping call returns.
EveryFetchTerminates ==
    /\ [](\A t \in TaskIds :
            /\ tasks[t].calls <= maxRetries + 1
            /\ tasks[t].attempt <= maxRetries + 1)
    /\ \A t \in TaskIds : (tasks[t].pc # "idle") ~> (tasks[t].pc = "idle" \/ crashed)
    /\ \A c \in CallIds : (calls[c] # "idle") ~> (calls[c] = "idle" \/ crashed)

\* C29's case: an addSecretMapping call has returned after its sequence failed
\* maxRetries + 1 >= 2 times, and nothing is left in flight.
EveryFetchTerminatesWitness ==
    /\ fin.exhausted
    /\ maxRetries >= 1
    /\ fin.calls = maxRetries + 1
    /\ ret.kind = "addSecretMapping"
    /\ Idle
    /\ \A c \in CallIds : calls[c] = "idle"

====
